---- MODULE Spec2Model ----
(***************************************************************************)
(* Model of phonehack/__main__.py: the debounced GPIO event detector       *)
(* (_event_detector), the ringer tasks (ring_once / ring_forever), the     *)
(* ring session (ring_until_answered) and the main loop, running on the    *)
(* asyncio event loop: a FIFO queue of ready handles, one-shot timers for  *)
(* asyncio.sleep, tasks, done-callbacks and cooperative cancellation.      *)
(* All durations are in milliseconds.                                      *)
(***************************************************************************)
EXTENDS Integers, Sequences, FiniteSets, TLC

VARIABLES
    hangar,               \* level of PIN_IN_HANGAR as the hardware presents it
    ringer,               \* last level written to PIN_OUT_RINGER
    ready,                \* the event loop's FIFO of ready handles
    timer,                \* per task: ms left on its asyncio.sleep timer, NoTimer if none
    sleep,                \* per task: state of the sleep future it awaits
    tstate,               \* per task: "none", "pending", "done", "cancelled", "failed"
    must_cancel,          \* Task._must_cancel of ring_forever_task
    mainPc,               \* position of the main coroutine
    togglePc,             \* position of the ring_forever coroutine
    ring_timer_secs,      \* ring_once's local ring_timer_secs
    dpc,                  \* per detector: position of the _event_detector coroutine
    debounce_timer_secs,  \* per detector: the local debounce_timer_secs
    result,               \* per detector: value returned by the last finished invocation
    dereg,                \* per detector object: calls of GPIO.remove_event_detect so far
    matched,              \* history: consecutive matching samples of the current run
    holdClock,            \* history: clock ms since the first sample of the current run
    discarded,            \* history: a mismatch of this invocation reset a nonzero timer
    writeSeq,             \* history: parity of the number of writes to the ringer pin
    sinceWrite,           \* history: clock ms since the last write to the ringer pin
    burstWrites,          \* history: writes made by the current call of ring_once
    bursts,               \* history: calls of ring_once begun in this session
    sinceResolve,         \* history: clock ms since the watcher resolved, NoTimer before
    postWrites,           \* history: ringer writes since the watcher resolved
    writeError,           \* history: "ringing" / "answered" once a GPIO.output call of
                          \* this session raised, before / after the watcher resolved
    sessionClock,         \* history: clock ms since the session began, modulo the ring
                          \* period, while the toggle task runs
    debounce_secs,        \* the detectors' debounce_secs (ms)
    ring_duration_secs,   \* the module global RING_DURATION_SECS (ms)
    sigint,               \* "none", "queued", "done": the interrupt cancelling main
    cancel_req            \* per task main / watcher: a cancellation awaits its next step

vars == <<hangar, ringer, ready, timer, sleep, tstate, must_cancel, mainPc, togglePc,
          ring_timer_secs, dpc, debounce_timer_secs, result, dereg, matched, holdClock,
          discarded, writeSeq, sinceWrite, burstWrites, bursts, sinceResolve, postWrites,
          writeError, sessionClock, debounce_secs, ring_duration_secs, sigint,
          cancel_req>>

\* ---------------------------------------------------------------- constants
\* The source's values in seconds (0.2, 0.8, 0.05, 1.6), here in milliseconds;
\* in floating point the source's sums give the same counts: the debounce
\* timer reaches 0.8 after 4 additions of 0.2, the ring timer passes 1.6 after
\* 32 additions of 0.05.
DEFAULT_GPIO_EVENT_POLL_SECS == 200
DEFAULT_GPIO_EVENT_DEBOUNCE_SECS == 800
RING_TOGGLE_INTERVAL_SECS == 50
RING_DURATION_SECS == 1600
LOW == 0
HIGH == 1

\* ------------------------------------------------------------------- bounds
ClockCap == 2000      \* holdClock and sinceWrite stop counting here
ResolveCap == 200     \* sinceResolve stops counting here
MaxDereg == 2         \* deregistration counts stop counting here
MaxCount == 40        \* sample and write counts stop counting here
MaxBursts == 2        \* burst counts stop counting here

NoTimer == 0 - 1
Levels == {LOW, HIGH}
Tasks == {"main", "toggle", "watcher"}
Detectors == {"is_in_hangar", "is_answered"}

\* One burst and the pause after it.
RingPeriod == 2 * ring_duration_secs

Min(S) == CHOOSE x \in S : \A y \in S : x <= y
Cap(n, c) == IF n > c THEN c ELSE n

\* The two detectors the program builds with get_gpio_event_detector.
Event(d) == IF d = "is_in_hangar" THEN LOW ELSE HIGH
Reusable(d) == FALSE
TaskOf(d) == IF d = "is_in_hangar" THEN "main" ELSE "watcher"

Step(t) == <<"step", t>>
TimerHandle(t) == <<"timer", t>>
DoneCallback == <<"callback", "on_phone_answered">>

Running(h) == ready # <<>> /\ Head(ready) = h

\* ------------------------------------------------------------ pure functions
\* One pass of the while loop of _event_detector on the sampled level.
\*   next = "sleep":  mismatch, debounce timer reset, await asyncio.sleep
\*   next = "poll":   match below the debounce time, continue (no await)
\*   next = "return": match with the debounce time met, return event
event_detector_keeps_timer(timer_secs, level, event, reusable) ==
    IF level # event
    THEN [timer |-> timer_secs, next |-> "sleep", remove |-> FALSE]
    ELSE IF timer_secs < debounce_secs
         THEN [timer |-> timer_secs + DEFAULT_GPIO_EVENT_POLL_SECS,
               next |-> "poll", remove |-> FALSE]
         ELSE [timer |-> timer_secs, next |-> "return", remove |-> ~reusable]

event_detector_never_counts(timer_secs, level, event, reusable) ==
    IF level # event
    THEN [timer |-> 0, next |-> "sleep", remove |-> FALSE]
    ELSE IF timer_secs < debounce_secs
         THEN [timer |-> timer_secs, next |-> "poll", remove |-> FALSE]
         ELSE [timer |-> timer_secs, next |-> "return", remove |-> ~reusable]

event_detector_counts_first(timer_secs, level, event, reusable) ==
    IF level # event
    THEN [timer |-> 0, next |-> "sleep", remove |-> FALSE]
    ELSE IF timer_secs <= debounce_secs
         THEN [timer |-> timer_secs + DEFAULT_GPIO_EVENT_POLL_SECS,
               next |-> "poll", remove |-> FALSE]
         ELSE [timer |-> timer_secs, next |-> "return", remove |-> ~reusable]

event_detector(timer_secs, level, event, reusable) ==
    IF level # event
    THEN [timer |-> 0, next |-> "sleep", remove |-> FALSE]
    ELSE IF timer_secs < debounce_secs
         THEN [timer |-> timer_secs + DEFAULT_GPIO_EVENT_POLL_SECS,
               next |-> "poll", remove |-> FALSE]
         ELSE [timer |-> timer_secs, next |-> "return", remove |-> ~reusable]

NoWrite == NoTimer

\* The head of ring_once's while loop: one more HIGH/LOW pair, or the end of
\* the burst, after which ring_forever sleeps RING_DURATION_SECS.
ring_once_loop_low_first(timer_secs) ==
    IF timer_secs < ring_duration_secs
    THEN [write |-> LOW, timer |-> timer_secs + RING_TOGGLE_INTERVAL_SECS,
          pc |-> "after_high", delay |-> RING_TOGGLE_INTERVAL_SECS]
    ELSE [write |-> NoWrite, timer |-> timer_secs,
          pc |-> "pause", delay |-> ring_duration_secs]

ring_once_loop_inclusive(timer_secs) ==
    IF timer_secs <= ring_duration_secs
    THEN [write |-> HIGH, timer |-> timer_secs + RING_TOGGLE_INTERVAL_SECS,
          pc |-> "after_high", delay |-> RING_TOGGLE_INTERVAL_SECS]
    ELSE [write |-> NoWrite, timer |-> timer_secs,
          pc |-> "pause", delay |-> ring_duration_secs]

ring_once_loop(timer_secs) ==
    IF timer_secs < ring_duration_secs
    THEN [write |-> HIGH, timer |-> timer_secs + RING_TOGGLE_INTERVAL_SECS,
          pc |-> "after_high", delay |-> RING_TOGGLE_INTERVAL_SECS]
    ELSE [write |-> NoWrite, timer |-> timer_secs,
          pc |-> "pause", delay |-> ring_duration_secs]

\* What the ring_forever coroutine does from its suspension point pc up to
\* its next await asyncio.sleep.
ring_forever(pc, timer_secs) ==
    CASE pc \in {"start", "pause"} -> ring_once_loop(0)
      [] pc = "after_high" ->
            [write |-> LOW, timer |-> timer_secs + RING_TOGGLE_INTERVAL_SECS,
             pc |-> "after_low", delay |-> RING_TOGGLE_INTERVAL_SECS]
      [] pc = "after_low" -> ring_once_loop(timer_secs)

\* --------------------------------------------------------------------- init
InitState ==
    /\ hangar \in Levels
    /\ ringer = LOW
    /\ ready = <<Step("main")>>
    /\ timer = [t \in Tasks |-> NoTimer]
    /\ sleep = [t \in Tasks |-> "none"]
    /\ tstate = [t \in Tasks |-> IF t = "main" THEN "pending" ELSE "none"]
    /\ must_cancel = FALSE
    /\ mainPc = "loop"
    /\ togglePc = "start"
    /\ ring_timer_secs = 0
    /\ dpc = [d \in Detectors |-> "idle"]
    /\ debounce_timer_secs = [d \in Detectors |-> 0]
    /\ result = [d \in Detectors |-> NoWrite]
    /\ dereg = [d \in Detectors |-> 0]
    /\ matched = [d \in Detectors |-> 0]
    /\ holdClock = [d \in Detectors |-> 0]
    /\ discarded = [d \in Detectors |-> FALSE]
    /\ writeSeq = 0
    /\ sinceWrite = 0
    /\ burstWrites = 0
    /\ bursts = 0
    /\ sinceResolve = NoTimer
    /\ postWrites = 0
    /\ writeError = "none"
    /\ sessionClock = 0
    /\ sigint = "none"
    /\ cancel_req = [t \in {"main", "watcher"} |-> FALSE]

\* The program as written: both detectors take the default debounce time.
Init ==
    /\ InitState
    /\ debounce_secs = DEFAULT_GPIO_EVENT_DEBOUNCE_SECS
    /\ ring_duration_secs = RING_DURATION_SECS

\* Debounce times a detector can be built with (the debounce_secs parameter of
\* get_gpio_event_detector): none, one poll interval, the default.
Debounces == {0, DEFAULT_GPIO_EVENT_POLL_SECS, DEFAULT_GPIO_EVENT_DEBOUNCE_SECS}

DebounceInit ==
    /\ InitState
    /\ debounce_secs \in Debounces
    /\ ring_duration_secs = RING_DURATION_SECS

\* Burst durations: the program's, and two that are not a whole number of
\* HIGH/LOW pairs.
RingDurations == {RING_DURATION_SECS, 3 * RING_TOGGLE_INTERVAL_SECS,
                  5 * RING_TOGGLE_INTERVAL_SECS}

BurstInit ==
    /\ InitState
    /\ debounce_secs = DEFAULT_GPIO_EVENT_DEBOUNCE_SECS
    /\ ring_duration_secs \in RingDurations

cfgVars == <<debounce_secs, ring_duration_secs>>
faultVars == <<sigint, cancel_req>>
detVars == <<dpc, debounce_timer_secs, result, dereg, matched, holdClock, discarded>>
toggleVars == <<togglePc, ring_timer_secs, ringer, writeSeq, sinceWrite, burstWrites,
                bursts, postWrites, writeError, sessionClock>>

\* -------------------------------------------------------------- environment
\* The handset switch changes the level of the hangar pin.
HangarChange ==
    /\ hangar' = 1 - hangar
    /\ UNCHANGED <<ringer, ready, timer, sleep, tstate, must_cancel, mainPc, togglePc,
                   ring_timer_secs, dpc, debounce_timer_secs, result, dereg, matched,
                   holdClock, discarded, writeSeq, sinceWrite, burstWrites, bursts,
                   sinceResolve, postWrites, writeError, sessionClock>>
    /\ UNCHANGED cfgVars
    /\ UNCHANGED faultVars

\* ------------------------------------------------------------ the event loop
\* With nothing ready the loop blocks until the earliest timer is due.
Advance ==
    /\ ready = <<>>
    /\ \A t \in Tasks : timer[t] # 0
    /\ \E t \in Tasks : timer[t] > 0
    /\ LET dt == Min({timer[t] : t \in {u \in Tasks : timer[u] > 0}}) IN
        /\ timer' = [t \in Tasks |-> IF timer[t] > 0 THEN timer[t] - dt ELSE timer[t]]
        /\ holdClock' = [d \in Detectors |->
                IF matched[d] > 0 /\ dpc[d] \in {"poll", "sleep"}
                THEN Cap(holdClock[d] + dt, ClockCap) ELSE holdClock[d]]
        /\ sinceWrite' = IF tstate["toggle"] = "pending"
                         THEN Cap(sinceWrite + dt, ClockCap) ELSE sinceWrite
        /\ sinceResolve' = IF sinceResolve >= 0
                           THEN Cap(sinceResolve + dt, ResolveCap) ELSE sinceResolve
        /\ sessionClock' = IF tstate["toggle"] = "pending"
                           THEN (sessionClock + dt) % RingPeriod ELSE sessionClock
    /\ UNCHANGED <<hangar, ringer, ready, sleep, tstate, must_cancel, mainPc, togglePc,
                   ring_timer_secs, dpc, debounce_timer_secs, result, dereg, matched,
                   discarded, writeSeq, burstWrites, bursts, postWrites, writeError>>
    /\ UNCHANGED cfgVars
    /\ UNCHANGED faultVars

\* A due timer's handle moves to the ready queue.
Fire(t) ==
    /\ timer[t] = 0
    /\ timer' = [timer EXCEPT ![t] = NoTimer]
    /\ ready' = Append(ready, TimerHandle(t))
    /\ UNCHANGED <<hangar, sleep, tstate, must_cancel, mainPc, sinceResolve>>
    /\ UNCHANGED detVars
    /\ UNCHANGED toggleVars
    /\ UNCHANGED cfgVars
    /\ UNCHANGED faultVars

\* The timer handle of asyncio.sleep sets the sleep future's result unless the
\* future was cancelled; the waiting task's wake-up is scheduled.
RunTimer(t) ==
    /\ Running(TimerHandle(t))
    /\ IF sleep[t] = "pending"
       THEN /\ sleep' = [sleep EXCEPT ![t] = "done"]
            /\ ready' = Append(Tail(ready), Step(t))
       ELSE /\ ready' = Tail(ready)
            /\ UNCHANGED sleep
    /\ UNCHANGED <<hangar, timer, tstate, must_cancel, mainPc, sinceResolve>>
    /\ UNCHANGED detVars
    /\ UNCHANGED toggleVars
    /\ UNCHANGED cfgVars
    /\ UNCHANGED faultVars

\* ----------------------------------------------------------------- detector
DetectorEnter_keeps_timer(d) ==
    /\ dpc' = [dpc EXCEPT ![d] = "poll"]
    /\ matched' = [matched EXCEPT ![d] = 0]
    /\ holdClock' = [holdClock EXCEPT ![d] = 0]
    /\ discarded' = [discarded EXCEPT ![d] = FALSE]
    /\ UNCHANGED <<debounce_timer_secs, result, dereg>>

\* Entry of one invocation of _event_detector: debounce_timer_secs = 0.
DetectorEnter(d) ==
    /\ dpc' = [dpc EXCEPT ![d] = "poll"]
    /\ debounce_timer_secs' = [debounce_timer_secs EXCEPT ![d] = 0]
    /\ matched' = [matched EXCEPT ![d] = 0]
    /\ holdClock' = [holdClock EXCEPT ![d] = 0]
    /\ discarded' = [discarded EXCEPT ![d] = FALSE]
    /\ UNCHANGED <<result, dereg>>

\* One pass of the detector's while loop: GPIO.input, then reset and sleep,
\* or count and continue, or deregister and return.
DetectorPass(d, r) ==
    /\ debounce_timer_secs' = [debounce_timer_secs EXCEPT ![d] = r.timer]
    /\ dpc' = [dpc EXCEPT ![d] = IF r.next = "return" THEN "done" ELSE r.next]
    /\ result' = [result EXCEPT ![d] = IF r.next = "return" THEN Event(d) ELSE @]
    /\ dereg' = [dereg EXCEPT ![d] = IF r.remove THEN Cap(@ + 1, MaxDereg) ELSE @]
    /\ matched' = [matched EXCEPT ![d] =
            IF hangar # Event(d) THEN 0 ELSE Cap(@ + 1, MaxCount)]
    /\ holdClock' = [holdClock EXCEPT ![d] = IF hangar # Event(d) THEN 0 ELSE @]
    /\ discarded' = [discarded EXCEPT ![d] =
            @ \/ (hangar # Event(d) /\ debounce_timer_secs[d] > 0)]

AwaitSleep_blocking(t, delay) ==
    /\ sleep' = [sleep EXCEPT ![t] = "pending"]
    /\ timer' = [u \in Tasks |->
                    IF u = t THEN delay
                    ELSE IF timer[u] >= 0 THEN timer[u] + delay ELSE timer[u]]
    /\ ready' = Tail(ready)

\* await asyncio.sleep(delay) in task t: a new future and its timer; the
\* running handle ends.
AwaitSleep(t, delay) ==
    /\ sleep' = [sleep EXCEPT ![t] = "pending"]
    /\ timer' = [timer EXCEPT ![t] = delay]
    /\ ready' = Tail(ready)

\* --------------------------------------------------------------------- main
\* Top of main's while loop: await is_in_hangar() enters the cradle detector
\* inside the main task.
MainLoop ==
    /\ Running(Step("main"))
    /\ mainPc = "loop"
    /\ ~cancel_req["main"]
    /\ mainPc' = "is_in_hangar"
    /\ DetectorEnter("is_in_hangar")
    /\ UNCHANGED <<hangar, ready, timer, sleep, tstate, must_cancel, sinceResolve>>
    /\ UNCHANGED toggleVars
    /\ UNCHANGED cfgVars
    /\ UNCHANGED faultVars

\* One sample of the cradle detector, run by the main task.
CradleSample ==
    /\ Running(Step("main"))
    /\ mainPc = "is_in_hangar"
    /\ ~cancel_req["main"]
    /\ dpc["is_in_hangar"] \in {"poll", "sleep"}
    /\ LET r == event_detector(debounce_timer_secs["is_in_hangar"], hangar,
                               Event("is_in_hangar"), Reusable("is_in_hangar")) IN
        /\ DetectorPass("is_in_hangar", r)
        /\ IF r.next = "sleep"
           THEN /\ AwaitSleep("main", DEFAULT_GPIO_EVENT_POLL_SECS)
                /\ UNCHANGED mainPc
           ELSE /\ mainPc' = IF r.next = "return" THEN "ring_until_answered" ELSE mainPc
                /\ UNCHANGED <<ready, timer, sleep>>
    /\ UNCHANGED <<hangar, tstate, must_cancel, sinceResolve>>
    /\ UNCHANGED toggleVars
    /\ UNCHANGED cfgVars
    /\ UNCHANGED faultVars

ring_until_answered_no_await ==
    /\ Running(Step("main"))
    /\ mainPc = "ring_until_answered"
    /\ mainPc' = "play_audio_file"
    /\ tstate' = [tstate EXCEPT !["toggle"] = "pending", !["watcher"] = "pending"]
    /\ sleep' = [sleep EXCEPT !["toggle"] = "none", !["watcher"] = "none"]
    /\ must_cancel' = FALSE
    /\ togglePc' = "start"
    /\ ring_timer_secs' = 0
    /\ dpc' = [dpc EXCEPT !["is_answered"] = "start"]
    /\ result' = [result EXCEPT !["is_answered"] = NoWrite]
    /\ dereg' = [dereg EXCEPT !["is_answered"] = 0]
    /\ ready' = Tail(ready) \o <<Step("toggle"), Step("watcher")>>
    /\ sinceWrite' = 0
    /\ burstWrites' = 0
    /\ bursts' = 0
    /\ sinceResolve' = NoTimer
    /\ postWrites' = 0
    /\ writeError' = "none"
    /\ sessionClock' = 0
    /\ UNCHANGED <<hangar, ringer, timer, debounce_timer_secs, matched, holdClock,
                   discarded, writeSeq>>
    /\ UNCHANGED cfgVars
    /\ UNCHANGED faultVars

\* ring_until_answered up to its await: the toggle task and the watcher task
\* are created (their first steps queued in that order), the done-callback is
\* attached, and main waits for the watcher task.
ring_until_answered ==
    /\ Running(Step("main"))
    /\ mainPc = "ring_until_answered"
    /\ mainPc' = "await_is_answered_task"
    /\ tstate' = [tstate EXCEPT !["toggle"] = "pending", !["watcher"] = "pending"]
    /\ sleep' = [sleep EXCEPT !["toggle"] = "none", !["watcher"] = "none"]
    /\ must_cancel' = FALSE
    /\ togglePc' = "start"
    /\ ring_timer_secs' = 0
    /\ dpc' = [dpc EXCEPT !["is_answered"] = "start"]
    /\ result' = [result EXCEPT !["is_answered"] = NoWrite]
    /\ dereg' = [dereg EXCEPT !["is_answered"] = 0]
    /\ ready' = Tail(ready) \o <<Step("toggle"), Step("watcher")>>
    /\ sinceWrite' = 0
    /\ burstWrites' = 0
    /\ bursts' = 0
    /\ sinceResolve' = NoTimer
    /\ postWrites' = 0
    /\ writeError' = "none"
    /\ sessionClock' = 0
    /\ UNCHANGED <<hangar, ringer, timer, debounce_timer_secs, matched, holdClock,
                   discarded, writeSeq>>
    /\ UNCHANGED cfgVars
    /\ UNCHANGED faultVars

\* The watcher task is done and main resumes after await is_answered_task:
\* ring_until_answered returns and main starts the playback subprocess.
MainAnswered ==
    /\ Running(Step("main"))
    /\ mainPc = "await_is_answered_task"
    /\ tstate["watcher"] = "done"
    /\ ~cancel_req["main"]
    /\ mainPc' = "play_audio_file"
    /\ ready' = Tail(ready)
    /\ UNCHANGED <<hangar, timer, sleep, tstate, must_cancel, sinceResolve>>
    /\ UNCHANGED detVars
    /\ UNCHANGED toggleVars
    /\ UNCHANGED cfgVars
    /\ UNCHANGED faultVars

\* The playback subprocess ends and main is woken.
PlaybackDone ==
    /\ mainPc = "play_audio_file"
    /\ ~cancel_req["main"]
    /\ mainPc' = "loop"
    /\ ready' = Append(ready, Step("main"))
    /\ UNCHANGED <<hangar, timer, sleep, tstate, must_cancel, sinceResolve>>
    /\ UNCHANGED detVars
    /\ UNCHANGED toggleVars
    /\ UNCHANGED cfgVars
    /\ UNCHANGED faultVars

\* ------------------------------------------------------------------ watcher
\* First step of is_answered_task.
WatcherEnter ==
    /\ Running(Step("watcher"))
    /\ tstate["watcher"] = "pending"
    /\ ~cancel_req["watcher"]
    /\ dpc["is_answered"] = "start"
    /\ DetectorEnter("is_answered")
    /\ UNCHANGED <<hangar, ready, timer, sleep, tstate, must_cancel, mainPc,
                   sinceResolve>>
    /\ UNCHANGED toggleVars
    /\ UNCHANGED cfgVars
    /\ UNCHANGED faultVars

\* One sample of the answered detector, run by is_answered_task.  When the
\* coroutine returns the task is done and its callbacks are queued in the
\* order they were added: on_phone_answered, then the wake-up of main.
WatcherSample ==
    /\ Running(Step("watcher"))
    /\ tstate["watcher"] = "pending"
    /\ ~cancel_req["watcher"]
    /\ dpc["is_answered"] \in {"poll", "sleep"}
    /\ LET r == event_detector(debounce_timer_secs["is_answered"], hangar,
                               Event("is_answered"), Reusable("is_answered")) IN
        /\ DetectorPass("is_answered", r)
        /\ CASE r.next = "sleep" ->
                    /\ AwaitSleep("watcher", DEFAULT_GPIO_EVENT_POLL_SECS)
                    /\ UNCHANGED <<tstate, sinceResolve>>
             [] r.next = "poll" ->
                    UNCHANGED <<ready, timer, sleep, tstate, sinceResolve>>
             [] r.next = "return" ->
                    /\ tstate' = [tstate EXCEPT !["watcher"] = "done"]
                    /\ ready' = Tail(ready) \o <<DoneCallback, Step("main")>>
                    /\ sinceResolve' = 0
                    /\ UNCHANGED <<timer, sleep>>
    /\ UNCHANGED <<hangar, must_cancel, mainPc>>
    /\ UNCHANGED toggleVars
    /\ UNCHANGED cfgVars
    /\ UNCHANGED faultVars

\* ------------------------------------------------------------------- toggle
ToggleRuns ==
    /\ Running(Step("toggle"))
    /\ tstate["toggle"] = "pending"

\* The coroutine's frame is gone; the histories of the running task end with it.
ToggleEnds ==
    /\ togglePc' = "ended"
    /\ ring_timer_secs' = 0
    /\ sinceWrite' = 0
    /\ burstWrites' = 0
    /\ bursts' = 0
    /\ sessionClock' = 0

CancelRequested_ignores_future == must_cancel

CancelRequested_never == FALSE

\* Task.__step throws CancelledError into the coroutine when cancel() was
\* recorded on the task or the future it waited on was cancelled.
CancelRequested == must_cancel \/ sleep["toggle"] = "cancelled"

\* A step of ring_forever_task from its suspension point to the next
\* await asyncio.sleep, with the GPIO.output call (if any) succeeding.
ToggleStep ==
    /\ ToggleRuns
    /\ ~CancelRequested
    /\ LET r == ring_forever(togglePc, ring_timer_secs) IN
        /\ togglePc' = r.pc
        /\ ring_timer_secs' = r.timer
        /\ AwaitSleep("toggle", r.delay)
        /\ IF r.write = NoWrite
           THEN UNCHANGED <<ringer, writeSeq, sinceWrite, burstWrites, bursts, postWrites>>
           ELSE /\ ringer' = r.write
                /\ writeSeq' = 1 - writeSeq
                /\ sinceWrite' = 0
                /\ burstWrites' = IF togglePc \in {"start", "pause"}
                                  THEN 1 ELSE Cap(burstWrites + 1, MaxCount)
                /\ bursts' = IF togglePc \in {"start", "pause"}
                             THEN Cap(bursts + 1, MaxBursts) ELSE bursts
                /\ postWrites' = IF sinceResolve >= 0
                                 THEN Cap(postWrites + 1, MaxCount) ELSE postWrites
    /\ UNCHANGED <<hangar, tstate, must_cancel, mainPc, sinceResolve, writeError,
                   sessionClock>>
    /\ UNCHANGED detVars
    /\ UNCHANGED cfgVars
    /\ UNCHANGED faultVars

\* GPIO.output raises: the exception leaves ring_once and ring_forever and
\* ends ring_forever_task, which stores it; nothing awaits that task.
ToggleWriteFails ==
    /\ ToggleRuns
    /\ ~CancelRequested
    /\ ring_forever(togglePc, ring_timer_secs).write # NoWrite
    /\ tstate' = [tstate EXCEPT !["toggle"] = "failed"]
    /\ writeError' = IF sinceResolve >= 0 THEN "answered" ELSE "ringing"
    /\ ToggleEnds
    /\ ready' = Tail(ready)
    /\ UNCHANGED <<hangar, ringer, timer, sleep, must_cancel, mainPc, writeSeq,
                   sinceResolve, postWrites>>
    /\ UNCHANGED detVars
    /\ UNCHANGED cfgVars
    /\ UNCHANGED faultVars

\* The step of a task whose cancellation was requested: CancelledError is
\* thrown into the coroutine at its await, asyncio.sleep cancels its timer,
\* nothing catches the error and the task ends cancelled.
ToggleCancelled ==
    /\ ToggleRuns
    /\ CancelRequested
    /\ tstate' = [tstate EXCEPT !["toggle"] = "cancelled"]
    /\ timer' = [timer EXCEPT !["toggle"] = NoTimer]
    /\ sleep' = [sleep EXCEPT !["toggle"] = "none"]
    /\ must_cancel' = FALSE
    /\ ToggleEnds
    /\ ready' = Tail(ready)
    /\ UNCHANGED <<hangar, mainPc, sinceResolve, ringer, writeSeq, postWrites,
                   writeError>>
    /\ UNCHANGED detVars
    /\ UNCHANGED cfgVars
    /\ UNCHANGED faultVars

\* ---------------------------------------------------------------- callback
on_phone_answered_forgets ==
    /\ Running(DoneCallback)
    /\ ready' = Tail(ready)
    /\ UNCHANGED <<hangar, timer, sleep, tstate, must_cancel, mainPc, sinceResolve>>
    /\ UNCHANGED detVars
    /\ UNCHANGED toggleVars
    /\ UNCHANGED cfgVars
    /\ UNCHANGED faultVars

\* The done-callback of is_answered_task: ring_forever_task.cancel().  A
\* finished task ignores it; a task waiting on a pending sleep future has that
\* future cancelled, which queues the task's wake-up; otherwise the request
\* is kept for the task's next step.
on_phone_answered ==
    /\ Running(DoneCallback)
    /\ IF tstate["toggle"] # "pending"
       THEN /\ ready' = Tail(ready)
            /\ UNCHANGED <<sleep, must_cancel>>
       ELSE IF sleep["toggle"] = "pending"
       THEN /\ sleep' = [sleep EXCEPT !["toggle"] = "cancelled"]
            /\ ready' = Append(Tail(ready), Step("toggle"))
            /\ UNCHANGED must_cancel
       ELSE /\ must_cancel' = TRUE
            /\ ready' = Tail(ready)
            /\ UNCHANGED sleep
    /\ UNCHANGED <<hangar, timer, tstate, mainPc, sinceResolve>>
    /\ UNCHANGED detVars
    /\ UNCHANGED toggleVars
    /\ UNCHANGED cfgVars
    /\ UNCHANGED faultVars

\* ------------------------------------------------- failures and cancellation
\* A step of main or of the watcher is under way: the coroutine went round its
\* loop, or on into ring_until_answered, without giving up the event loop.
InStep ==
    \/ /\ Running(Step("main"))
       /\ \/ mainPc = "ring_until_answered"
          \/ mainPc = "is_in_hangar" /\ dpc["is_in_hangar"] = "poll"
    \/ /\ Running(Step("watcher"))
       /\ dpc["is_answered"] = "poll"

\* The end of a task's coroutine by an exception: asyncio.sleep's timer is
\* dropped with the frame.
TaskEnds(t, how) ==
    /\ tstate' = [tstate EXCEPT ![t] = how]
    /\ timer' = [timer EXCEPT ![t] = NoTimer]
    /\ sleep' = [sleep EXCEPT ![t] = "none"]

\* GPIO.input raises in the answered detector: nothing in _event_detector or
\* the task catches it, the task ends with the exception and its callbacks
\* are queued as for any completion.
WatcherReadFails ==
    /\ Running(Step("watcher"))
    /\ tstate["watcher"] = "pending"
    /\ ~cancel_req["watcher"]
    /\ dpc["is_answered"] \in {"poll", "sleep"}
    /\ dpc' = [dpc EXCEPT !["is_answered"] = "failed"]
    /\ TaskEnds("watcher", "failed")
    /\ ready' = Tail(ready) \o <<DoneCallback, Step("main")>>
    /\ sinceResolve' = 0
    /\ UNCHANGED <<hangar, must_cancel, mainPc, debounce_timer_secs, result, dereg,
                   matched, holdClock, discarded>>
    /\ UNCHANGED toggleVars
    /\ UNCHANGED cfgVars
    /\ UNCHANGED faultVars

\* GPIO.input raises in the cradle detector, which runs inside main: the
\* exception leaves main and ends the main task.
CradleReadFails ==
    /\ Running(Step("main"))
    /\ mainPc = "is_in_hangar"
    /\ ~cancel_req["main"]
    /\ dpc["is_in_hangar"] \in {"poll", "sleep"}
    /\ dpc' = [dpc EXCEPT !["is_in_hangar"] = "failed"]
    /\ mainPc' = "raised"
    /\ TaskEnds("main", "failed")
    /\ ready' = Tail(ready)
    /\ UNCHANGED <<hangar, must_cancel, sinceResolve, debounce_timer_secs, result,
                   dereg, matched, holdClock, discarded>>
    /\ UNCHANGED toggleVars
    /\ UNCHANGED cfgVars
    /\ UNCHANGED faultVars

MainRaises_reports ==
    /\ Running(Step("main"))
    /\ mainPc = "await_is_answered_task"
    /\ tstate["watcher"] = "failed"
    /\ ~cancel_req["main"]
    /\ mainPc' = "play_audio_file"
    /\ ready' = Tail(ready)
    /\ UNCHANGED <<hangar, timer, sleep, tstate, must_cancel, sinceResolve>>
    /\ UNCHANGED detVars
    /\ UNCHANGED toggleVars
    /\ UNCHANGED cfgVars
    /\ UNCHANGED faultVars

\* main resumes at await is_answered_task with the watcher task failed: the
\* await raises the task's exception, which leaves ring_until_answered and
\* main.
MainRaises ==
    /\ Running(Step("main"))
    /\ mainPc = "await_is_answered_task"
    /\ tstate["watcher"] = "failed"
    /\ ~cancel_req["main"]
    /\ mainPc' = "raised"
    /\ TaskEnds("main", "failed")
    /\ ready' = Tail(ready)
    /\ UNCHANGED <<hangar, must_cancel, sinceResolve>>
    /\ UNCHANGED detVars
    /\ UNCHANGED toggleVars
    /\ UNCHANGED cfgVars
    /\ UNCHANGED faultVars

\* Task.cancel() on a task waiting on its sleep future, or with its step
\* already queued: the pending future is cancelled, which queues the step.
CancelSleeper(t) ==
    IF sleep[t] = "pending"
    THEN /\ sleep' = [sleep EXCEPT ![t] = "cancelled"]
         /\ ready' = Append(ready, Step(t))
    ELSE UNCHANGED <<sleep, ready>>

\* main_task.cancel(), as asyncio.run does on an interrupt, between two
\* handles of the loop.  A main that waits for the pending watcher task passes
\* the request on to it (Task.cancel cancels the awaited future); otherwise
\* the request is for main itself.
MainTaskCancel ==
    /\ sigint = "none"
    /\ tstate["main"] = "pending"
    /\ ~InStep
    /\ sigint' = "delivered"
    /\ IF mainPc = "await_is_answered_task" /\ tstate["watcher"] = "pending"
       THEN /\ cancel_req' = [cancel_req EXCEPT !["watcher"] = TRUE]
            /\ CancelSleeper("watcher")
       ELSE /\ cancel_req' = [cancel_req EXCEPT !["main"] = TRUE]
            /\ IF mainPc = "play_audio_file"
               THEN /\ ready' = Append(ready, Step("main"))
                    /\ UNCHANGED sleep
               ELSE CancelSleeper("main")
    /\ UNCHANGED <<hangar, timer, tstate, must_cancel, mainPc, sinceResolve>>
    /\ UNCHANGED detVars
    /\ UNCHANGED toggleVars
    /\ UNCHANGED cfgVars

\* The step of the cancelled watcher: CancelledError is thrown in at the
\* await asyncio.sleep of _event_detector (lines 97-98), which has no handler
\* and no finally, so the task ends cancelled and its callbacks are queued.
WatcherCancelled ==
    /\ Running(Step("watcher"))
    /\ tstate["watcher"] = "pending"
    /\ cancel_req["watcher"]
    /\ dpc' = [dpc EXCEPT !["is_answered"] = "cancelled"]
    /\ TaskEnds("watcher", "cancelled")
    /\ ready' = Tail(ready) \o <<DoneCallback, Step("main")>>
    /\ sinceResolve' = 0
    /\ UNCHANGED <<hangar, must_cancel, mainPc, debounce_timer_secs, result, dereg,
                   matched, holdClock, discarded>>
    /\ UNCHANGED toggleVars
    /\ UNCHANGED cfgVars
    /\ UNCHANGED faultVars

\* main's step finds its own cancellation requested, or the task it awaited
\* cancelled.
MainCancelRequested ==
    \/ cancel_req["main"]
    \/ mainPc = "await_is_answered_task" /\ tstate["watcher"] = "cancelled"

MainCancelled_reports ==
    /\ Running(Step("main"))
    /\ tstate["main"] = "pending"
    /\ MainCancelRequested
    /\ mainPc' = "play_audio_file"
    /\ cancel_req' = [cancel_req EXCEPT !["main"] = FALSE]
    /\ ready' = Tail(ready)
    /\ UNCHANGED <<hangar, timer, sleep, tstate, must_cancel, sinceResolve, sigint>>
    /\ UNCHANGED detVars
    /\ UNCHANGED toggleVars
    /\ UNCHANGED cfgVars

\* CancelledError is thrown into main at its await; neither main nor
\* ring_until_answered nor _event_detector catches it and the main task ends
\* cancelled.
MainCancelled ==
    /\ Running(Step("main"))
    /\ tstate["main"] = "pending"
    /\ MainCancelRequested
    /\ mainPc' = "cancelled"
    /\ dpc' = [dpc EXCEPT !["is_in_hangar"] =
                    IF mainPc = "is_in_hangar" THEN "cancelled" ELSE @]
    /\ TaskEnds("main", "cancelled")
    /\ ready' = Tail(ready)
    /\ UNCHANGED <<hangar, must_cancel, sinceResolve, debounce_timer_secs, result,
                   dereg, matched, holdClock, discarded>>
    /\ UNCHANGED toggleVars
    /\ UNCHANGED cfgVars
    /\ UNCHANGED faultVars

\* ------------------------------------------------------------ specification
Next ==
    \/ HangarChange
    \/ Advance
    \/ \E t \in Tasks : Fire(t)
    \/ \E t \in Tasks : RunTimer(t)
    \/ MainLoop
    \/ CradleSample
    \/ ring_until_answered
    \/ MainAnswered
    \/ PlaybackDone
    \/ WatcherEnter
    \/ WatcherSample
    \/ ToggleStep
    \/ ToggleWriteFails
    \/ ToggleCancelled
    \/ on_phone_answered

Spec == Init /\ [][Next]_vars

\* The program with a failing read of the hangar pin and with the
\* cancellation of the main task.
FaultNext ==
    \/ Next
    \/ WatcherReadFails
    \/ CradleReadFails
    \/ MainRaises
    \/ MainTaskCancel
    \/ WatcherCancelled
    \/ MainCancelled

FaultSpec == Init /\ [][FaultNext]_vars

\* The same program with the detectors' debounce time, or the burst
\* duration, given another value.
DebounceSpec == DebounceInit /\ [][Next]_vars
BurstSpec == BurstInit /\ [][Next]_vars

\* The event loop runs every ready handle, fires every due timer and, with
\* nothing ready, sleeps until the next timer; the playback subprocess ends.
\* The handset switch and the GPIO driver's failures are under no obligation.
LoopStep ==
    \/ Advance
    \/ \E t \in Tasks : Fire(t)
    \/ \E t \in Tasks : RunTimer(t)
    \/ MainLoop
    \/ CradleSample
    \/ ring_until_answered
    \/ MainAnswered
    \/ WatcherEnter
    \/ WatcherSample
    \/ ToggleStep
    \/ ToggleCancelled
    \/ on_phone_answered

FairSpec == Spec /\ WF_vars(LoopStep) /\ WF_vars(PlaybackDone)

TypeOK ==
    /\ hangar \in Levels
    /\ ringer \in Levels
    /\ mainPc \in {"loop", "is_in_hangar", "ring_until_answered",
                   "await_is_answered_task", "play_audio_file", "raised", "cancelled"}
    /\ togglePc \in {"start", "after_high", "after_low", "pause", "ended"}
    /\ \A t \in Tasks : timer[t] \in NoTimer..RING_DURATION_SECS
    /\ \A d \in Detectors : dpc[d] \in {"idle", "start", "poll", "sleep", "done", "failed", "cancelled"}
    /\ Len(ready) <= 6

\* ------------------------------------------------------------------ claims
\* ring_until_answered has returned to main and the next session has not begun.
SessionReported == mainPc = "play_audio_file"
OutsideSession == mainPc # "await_is_answered_task"
RingerWritten == writeSeq' # writeSeq

\* C1: when a ring session reports completion, the last level written to the
\* ringer pin is LOW, wherever in a burst or pause the watcher resolved.
RingerLowWhenAnswered == SessionReported => ringer = LOW

\* C2: a detector never resolves before the pin has held the target level for
\* the debounce duration of clock time, counted from the first sample of the
\* final uninterrupted matching run.
DebounceLowerBound ==
    \A d \in Detectors :
        dpc[d] = "done" => holdClock[d] >= DEFAULT_GPIO_EVENT_DEBOUNCE_SECS

\* C3: a mismatched sample sets the accumulated hold time to zero, the hold
\* time is always the poll interval times the number of consecutive matching
\* samples since the last mismatch, and a detector resolves only when those
\* samples alone account for the full debounce duration.
DebounceStability ==
    \A d \in Detectors :
        /\ dpc[d] \in {"poll", "sleep"} =>
                debounce_timer_secs[d] = DEFAULT_GPIO_EVENT_POLL_SECS * matched[d]
        /\ dpc[d] = "sleep" => debounce_timer_secs[d] = 0
        /\ dpc[d] = "done" =>
                /\ debounce_timer_secs[d] =
                        DEFAULT_GPIO_EVENT_POLL_SECS * (matched[d] - 1)
                /\ debounce_timer_secs[d] >= DEFAULT_GPIO_EVENT_DEBOUNCE_SECS

\* A detector resolved in an invocation in which a mismatch had thrown away
\* hold time accumulated before it.
DebounceStabilityWitness ==
    \E d \in Detectors : dpc[d] = "done" /\ discarded[d]

\* C4: the toggle task has terminated before ring_until_answered reports
\* completion; the session never has returned while the toggle task is alive.
ToggleEndedBeforeReturn == OutsideSession => tstate["toggle"] # "pending"

\* C5: once ring_until_answered has reported completion no write to the
\* ringer pin happens until the main loop starts the next session.
NoWriteAfterTeardown == [][OutsideSession => ~RingerWritten]_vars

\* The session has reported while the toggle task, its cancellation requested,
\* still has a wake-up queued.
NoWriteAfterTeardownWitness ==
    /\ SessionReported
    /\ tstate["toggle"] = "pending"
    /\ \E i \in 1..Len(ready) : ready[i] = Step("toggle")

\* C6: a GPIO.output failure during ringing ends the session with that error;
\* the session does not go on to report normal completion.
WriteFailureEndsSession == ~(writeError = "ringing" /\ SessionReported)

\* C7: an invocation during which the pin stays at the target level from some
\* point on resolves, returning the target level, and never suspends once the
\* hold time has reached the debounce duration; an invocation during which
\* the pin never shows the target level never resolves and starts a new
\* poll-interval sleep again and again.
Polling(d) == dpc[d] \in {"poll", "sleep"}
EventualResolution ==
    \A d \in Detectors :
        /\ [](Polling(d) /\ [](hangar = Event(d))
                => <>(dpc[d] = "done" /\ result[d] = Event(d)))
        /\ [](Polling(d) /\ [](hangar # Event(d))
                => [](dpc[d] # "done"))
        /\ [](Polling(d) /\ [](hangar # Event(d))
                => []<>(dpc[d] = "sleep"
                        /\ timer[TaskOf(d)] = DEFAULT_GPIO_EVENT_POLL_SECS))
        /\ [](debounce_timer_secs[d] >= DEFAULT_GPIO_EVENT_DEBOUNCE_SECS
                => dpc[d] # "sleep")

\* The watcher has just resolved with the pin at the target level, in a poll
\* made during the session's second burst, after sleeping on mismatches.
EventualResolutionWitness ==
    /\ dpc["is_answered"] = "done"
    /\ result["is_answered"] = HIGH
    /\ hangar = HIGH
    /\ sinceResolve = 0
    /\ bursts = MaxBursts

\* C8 as claimed: after the watcher resolves the toggle task writes no later
\* than one toggle interval after the resolution and starts no new burst.
StopsWithoutNewBurst ==
    [][(sinceResolve >= 0 /\ RingerWritten) =>
            (sinceResolve <= RING_TOGGLE_INTERVAL_SECS /\ burstWrites' # 1)]_vars

\* C8 amended: after the watcher resolves the toggle task writes at most once
\* more, at the instant of the resolution and before the done-callback has
\* run; that write may be the first of a new burst.
StopsAfterQueuedStep ==
    [][(sinceResolve >= 0 /\ RingerWritten) =>
            /\ sinceResolve = 0
            /\ postWrites = 0
            /\ \E i \in 1..Len(ready) : ready[i] = DoneCallback]_vars

\* The toggle task began a burst after the watcher had resolved.
StopsAfterQueuedStepWitness ==
    sinceResolve >= 0 /\ postWrites = 1 /\ burstWrites = 1 /\ bursts = MaxBursts

\* C9: until the watcher resolves or a write fails, the writes of a session
\* alternate HIGH, LOW one toggle interval apart, a burst has
\* RING_DURATION_SECS / RING_TOGGLE_INTERVAL_SECS writes, begins HIGH and ends
\* LOW, and a pause of RING_DURATION_SECS without a write follows the last
\* toggle interval of a burst.
Uninterrupted == sinceResolve = NoTimer /\ writeError = "none"
RingCadence ==
    [][(Uninterrupted /\ RingerWritten) =>
        /\ ringer' = (IF burstWrites' % 2 = 1 THEN HIGH ELSE LOW)
        /\ burstWrites' > 1 => sinceWrite = RING_TOGGLE_INTERVAL_SECS
        /\ (burstWrites' = 1 /\ bursts > 0) =>
                /\ sinceWrite = RING_TOGGLE_INTERVAL_SECS + RING_DURATION_SECS
                /\ burstWrites * RING_TOGGLE_INTERVAL_SECS = RING_DURATION_SECS
                /\ ringer = LOW]_vars

\* A second burst has begun in a session that nothing has interrupted.
RingCadenceWitness ==
    Uninterrupted /\ bursts = MaxBursts /\ burstWrites = 1 /\ ringer = HIGH

\* C10: one non-reusable detector calls GPIO.remove_event_detect at most once.
DeregistersOnce == \A d \in Detectors : dereg[d] <= 1

\* C11: every invocation of a detector begins with accumulated hold time
\* zero, and it resolves only on matching samples read during that invocation
\* that alone reach the debounce time; nothing of an earlier invocation of
\* the same detector counts.
FreshCycle ==
    /\ [][\A d \in Detectors :
            (~Polling(d) /\ Polling(d)') => debounce_timer_secs'[d] = 0]_vars
    /\ [](\A d \in Detectors :
            dpc[d] = "done" =>
                (matched[d] - 1) * DEFAULT_GPIO_EVENT_POLL_SECS >= debounce_secs)

\* The cradle detector, invoked again after it had resolved, has resolved
\* once more, after a mismatch of its own had reset its hold time.
FreshCycleWitness ==
    /\ dereg["is_in_hangar"] = MaxDereg
    /\ dpc["is_in_hangar"] = "done"
    /\ discarded["is_in_hangar"]

\* The order of main's suspension points within one iteration of its loop.
MainOrder ==
    {<<"loop", "is_in_hangar">>,
     <<"is_in_hangar", "ring_until_answered">>,
     <<"ring_until_answered", "await_is_answered_task">>,
     <<"await_is_answered_task", "play_audio_file">>,
     <<"play_audio_file", "loop">>}

\* C12: in every iteration main passes, in this order, the cradle detector
\* resolving on a LOW sample, the start of the ring session, the watcher
\* resolving on a HIGH sample, the session's return and the playback; the
\* ringer pin is written only after the cradle detector of the iteration has
\* resolved, playback starts only once the watcher has resolved, and the next
\* cradle wait is entered only from the returned playback.
MainLoopOrdering ==
    /\ [][mainPc' # mainPc => <<mainPc, mainPc'>> \in MainOrder]_vars
    /\ [][\A d \in Detectors :
            (dpc[d] # "done" /\ dpc'[d] = "done") =>
                hangar = Event(d) /\ result'[d] = Event(d)]_vars
    /\ [](mainPc \in {"ring_until_answered", "await_is_answered_task",
                      "play_audio_file"} =>
            dpc["is_in_hangar"] = "done")
    /\ [](mainPc = "play_audio_file" =>
            tstate["watcher"] = "done" /\ dpc["is_answered"] = "done")
    /\ [][RingerWritten =>
            dpc["is_in_hangar"] = "done" /\ mainPc = "await_is_answered_task"]_vars
    /\ [][Polling("is_in_hangar")' /\ ~Polling("is_in_hangar") =>
            mainPc = "loop"]_vars

\* The playback of a second iteration has started.
MainLoopOrderingWitness ==
    /\ mainPc = "play_audio_file"
    /\ dereg["is_in_hangar"] = MaxDereg
    /\ bursts >= 1

\* C13: when a ring session creates its toggle task no toggle task of an
\* earlier session is alive, none is alive while main waits for the cradle,
\* and every write to the ringer pin is a step of the toggle task made while
\* main is inside the session that created it.
ExclusiveOwnership ==
    /\ [](mainPc \in {"is_in_hangar", "ring_until_answered"} =>
            tstate["toggle"] # "pending")
    /\ [][RingerWritten =>
            /\ ToggleRuns
            /\ mainPc = "await_is_answered_task"
            /\ mainPc' = mainPc]_vars

\* The toggle task of a second session is alive and has written.
ExclusiveOwnershipWitness ==
    /\ dereg["is_in_hangar"] = MaxDereg
    /\ mainPc = "await_is_answered_task"
    /\ tstate["toggle"] = "pending"
    /\ burstWrites >= 2

\* C14: with a debounce time of 0 the first sample of an invocation that
\* matches the target level ends the invocation in that same pass, starting
\* no wait and taking no further sample, and the result is the target level.
ZeroDebounce ==
    /\ [][\A d \in Detectors :
            (debounce_secs = 0 /\ Polling(d) /\ matched'[d] > matched[d]) =>
                /\ dpc'[d] = "done"
                /\ result'[d] = Event(d)
                /\ timer' = timer
                /\ sleep' = sleep]_vars
    /\ [](\A d \in Detectors :
            debounce_secs = 0 =>
                /\ Polling(d) => matched[d] = 0
                /\ dpc[d] = "done" => matched[d] = 1 /\ result[d] = Event(d))

\* With debounce 0 the watcher resolved in the second burst of its session,
\* on its first matching sample.
ZeroDebounceWitness ==
    /\ debounce_secs = 0
    /\ tstate["watcher"] = "done"
    /\ dpc["is_answered"] = "done"
    /\ matched["is_answered"] = 1
    /\ bursts = MaxBursts

\* C19: a complete burst has an even number of writes, the least even number
\* whose toggle intervals cover the burst duration, so 32 writes over 1.6 s
\* for the program's 50 ms and 1.6 s and more than the duration when the
\* duration is not a whole number of HIGH/LOW pairs; the pause that follows
\* is the burst duration exactly.
BurstLength ==
    /\ [](togglePc = "pause" =>
            /\ burstWrites % 2 = 0
            /\ ring_timer_secs = burstWrites * RING_TOGGLE_INTERVAL_SECS
            /\ ring_timer_secs >= ring_duration_secs
            /\ ring_timer_secs - 2 * RING_TOGGLE_INTERVAL_SECS < ring_duration_secs)
    /\ [](togglePc = "pause" /\ ring_duration_secs = RING_DURATION_SECS =>
            burstWrites = 32 /\ ring_timer_secs = RING_DURATION_SECS)
    /\ [][togglePc # "pause" /\ togglePc' = "pause" =>
            timer'["toggle"] = ring_duration_secs]_vars
    /\ [][togglePc = "pause" /\ RingerWritten /\ Uninterrupted =>
            sinceWrite = RING_TOGGLE_INTERVAL_SECS + ring_duration_secs]_vars

\* A second burst of a duration of five toggle intervals has ended, after
\* six writes.
BurstLengthWitness ==
    /\ ring_duration_secs = 5 * RING_TOGGLE_INTERVAL_SECS
    /\ togglePc = "pause"
    /\ bursts = MaxBursts
    /\ burstWrites = 6

\* C15: when a read of the hangar pin fails in the watcher, the detector ends
\* with the error: no result, no deregistration, no further poll wait; the
\* done-callback cancels the toggle task; and main leaves
\* ring_until_answered with the error, never with the session reported.
InputReadFailure ==
    /\ [](tstate["watcher"] = "failed" =>
            /\ dpc["is_answered"] = "failed"
            /\ result["is_answered"] = NoWrite
            /\ dereg["is_answered"] = 0
            /\ timer["watcher"] = NoTimer
            /\ mainPc \in {"await_is_answered_task", "raised", "cancelled"})
    /\ [][tstate["watcher"] = "failed" /\ mainPc' # mainPc /\ ~cancel_req["main"] =>
            mainPc' = "raised"]_vars
    /\ [](tstate["watcher"] = "failed" /\ mainPc = "raised" =>
            tstate["toggle"] # "pending" \/ CancelRequested)
    /\ [](tstate["watcher"] = "failed" /\ ready = <<>> =>
            mainPc \in {"raised", "cancelled"} /\ tstate["toggle"] # "pending")

\* A read failed in the watcher; the toggle task has been cancelled by the
\* callback and main has raised.
InputReadFailureWitness ==
    /\ tstate["watcher"] = "failed"
    /\ mainPc = "raised"
    /\ tstate["toggle"] = "cancelled"
    /\ sigint = "none"
    /\ ready = <<>>

\* C16 as claimed: a detector invocation that ends by cancellation has called
\* GPIO.remove_event_detect.
DeregistersOnCancel ==
    [][\A d \in Detectors :
        (dpc[d] # "cancelled" /\ dpc'[d] = "cancelled") => dereg'[d] # dereg[d]]_vars

\* C18: when main is cancelled while it waits for the pending watcher of a
\* ringing session, the request reaches the watcher, which ends cancelled;
\* the done-callback cancels the toggle task; main ends cancelled, never
\* reporting the session; after that nothing writes the ringer pin, a toggle
\* task still pending has its cancellation requested and its last step
\* queued, and once the queued steps have run no task is alive.
SessionCancellation ==
    /\ [](cancel_req["watcher"] =>
            tstate["watcher"] \in {"pending", "cancelled"})
    /\ [][cancel_req["watcher"] /\ mainPc' # mainPc => mainPc' = "cancelled"]_vars
    /\ [](cancel_req["watcher"] /\ mainPc = "cancelled" =>
            /\ tstate["watcher"] = "cancelled"
            /\ tstate["main"] = "cancelled"
            /\ tstate["toggle"] = "pending" =>
                    /\ CancelRequested
                    /\ \E i \in 1..Len(ready) : ready[i] = Step("toggle"))
    /\ [][mainPc = "cancelled" => ~RingerWritten]_vars
    /\ [](cancel_req["watcher"] /\ ready = <<>> =>
            /\ mainPc = "cancelled"
            /\ \A t \in Tasks : tstate[t] # "pending")

\* Main was cancelled while it waited for the pending watcher; all three
\* tasks have ended, the watcher and the toggle task cancelled.
SessionCancellationWitness ==
    /\ cancel_req["watcher"]
    /\ mainPc = "cancelled"
    /\ tstate["watcher"] = "cancelled"
    /\ tstate["toggle"] = "cancelled"
    /\ ready = <<>>

\* The session clock at which the toggle task's pending sleep ends, as
\* ring_forever alone fixes it: the toggle intervals counted so far within a
\* burst, the end of the ring period within a pause.
ToggleDue == IF togglePc = "pause" THEN 0 ELSE ring_timer_secs

\* C17: while a session's watcher and toggle task both run and nothing has
\* ended either, each keeps the timetable it has alone.  The watcher samples
\* at the session's start and then one poll interval after each mismatching
\* sample, so at whole poll intervals of the session clock whatever the
\* toggle task does; the toggle task writes at whole toggle intervals within
\* the first half of each ring period, HIGH on even and LOW on odd intervals,
\* whatever the watcher does.  (Each task alone is deterministic in the clock
\* and the pin trace, so equality with the run without the other task is
\* equality with this timetable.)
ConcurrentIndependence ==
    /\ [](Uninterrupted /\ tstate["toggle"] = "pending"
            /\ tstate["watcher"] = "pending" /\ timer["watcher"] >= 0 =>
                (sessionClock + timer["watcher"]) % DEFAULT_GPIO_EVENT_POLL_SECS = 0)
    /\ [][Uninterrupted /\ tstate["toggle"] = "pending" /\ WatcherSample =>
            sessionClock % DEFAULT_GPIO_EVENT_POLL_SECS = 0]_vars
    /\ [](Uninterrupted /\ tstate["toggle"] = "pending"
            /\ tstate["watcher"] = "pending" /\ timer["toggle"] >= 0 =>
                (sessionClock + timer["toggle"]) % RingPeriod = ToggleDue)
    /\ [][Uninterrupted /\ tstate["watcher"] = "pending" /\ RingerWritten =>
            /\ sessionClock % RING_TOGGLE_INTERVAL_SECS = 0
            /\ sessionClock < ring_duration_secs
            /\ ringer' = IF sessionClock % (2 * RING_TOGGLE_INTERVAL_SECS) = 0
                         THEN HIGH ELSE LOW]_vars

\* In the second burst of a session the toggle interval after a HIGH write
\* has elapsed while the watcher is a quarter into its poll wait.
ConcurrentIndependenceWitness ==
    /\ Uninterrupted
    /\ tstate["watcher"] = "pending"
    /\ tstate["toggle"] = "pending"
    /\ bursts = MaxBursts
    /\ ringer = HIGH
    /\ timer["toggle"] = 0
    /\ timer["watcher"] = DEFAULT_GPIO_EVENT_POLL_SECS - RING_TOGGLE_INTERVAL_SECS
====
